---- MODULE Spec2Model ----
(***************************************************************************)
(* Model of the Telegram -> LLM relay: the per-conversation message queue  *)
(* and its worker (processMessageQueue), the completion call (sendChat),   *)
(* the state cache (userStates), the durable store (loadUserState /        *)
(* saveUserState) and the command and text handlers registered in main.    *)
(*                                                                         *)
(* Every handler is one action.  The worker goroutine is cut into steps at *)
(* its blocking calls (channel receive, HTTP round trip, c.Send) and at    *)
(* the statements of sendChat that write the shared *UserState.            *)
(***************************************************************************)
EXTENDS Integers, Sequences, FiniteSets, TLC

----------------------------------------------------------------------------
(* Program constants *)

QueueCap == 10
HistoryLimit == 40
MeID == 0

DefaultModel == "default_model"
DefaultSystemPrompt == "You are a helpful assistant."

----------------------------------------------------------------------------
(* Bounds of the model *)

MaxWorkers == 2
MaxTexts == 2
MaxCmds == 1
MaxResp == 2
CapTexts == 12
CapResp == 1
HistTexts == 3
HistCmds == 2
HistResp == 2
LoadCmds == 1

Chats == {1, 2}
Workers == Chats \X (1..MaxWorkers)

TextPool == << "t1", "t2", "t3", "t4", "t5", "t6", "t7", "t8", "t9", "t10",
               "t11", "t12", "t13", "t14", "t15", "t16" >>
Text(n) == TextPool[n]

Replies == {"r", ""}
Failures == {"transport", "timeout", "status", "decode"}
Slots == {"1", "2"}
PresetModels == {"m1"}

----------------------------------------------------------------------------
(* Go values: maps that may be nil, the UserState struct *)

NilMap == [nil |-> TRUE]
EmptyMap == [nil |-> FALSE, kv |-> <<>>]
MapLen(m) == IF m.nil THEN 0 ELSE Cardinality(DOMAIN m.kv)
MapHas(m, k) == (~m.nil) /\ k \in DOMAIN m.kv
MapPut(m, k, v) ==
    [nil |-> FALSE, kv |-> [x \in (DOMAIN m.kv) \cup {k} |-> IF x = k THEN v ELSE m.kv[x]]]

ChatMessage(role, content) == [Role |-> role, Content |-> content]
Preset(model, prompt) == [Model |-> model, SystemPrompt |-> prompt]

UserState(model, prompt, history, presets, pending) ==
    [Model |-> model, SystemPrompt |-> prompt, History |-> history,
     Presets |-> presets, PendingInput |-> pending]

Nil == [nil |-> TRUE]

----------------------------------------------------------------------------
(* The durable record: a file that is missing, is not JSON, or is a JSON   *)
(* object whose five known keys are each absent, null, of the wrong type   *)
(* or a value of the field's type.                                         *)

JAbsent == [t |-> "absent"]
JNull == [t |-> "null"]
JBad == [t |-> "bad"]
JVal(v) == [t |-> "val", v |-> v]

NoFile == [kind |-> "missing"]
GarbageFile == [kind |-> "garbage"]
JsonFile(model, prompt, history, presets, pending) ==
    [kind |-> "json", model |-> model, system_prompt |-> prompt,
     history |-> history, presets |-> presets, pending_input |-> pending]

(* json.Marshal(state): a nil slice and a nil map are written as null *)
Marshal(s) ==
    JsonFile(JVal(s.Model), JVal(s.SystemPrompt),
             IF s.History = <<>> THEN JNull ELSE JVal(s.History),
             IF s.Presets.nil THEN JNull ELSE JVal(s.Presets.kv),
             JVal(s.PendingInput))

(* json.Unmarshal into a string field: null, a missing key and a value of *)
(* the wrong type leave the field as it was                                *)
DecodeString(j, old) == IF j.t = "val" THEN j.v ELSE old

(* ... into a slice field: null sets it to nil *)
DecodeSlice(j, old) ==
    IF j.t = "val" THEN j.v ELSE IF j.t = "null" THEN <<>> ELSE old

(* ... into a map field: null sets it to the nil map, an object adds its  *)
(* entries to the map that is there                                        *)
DecodeMap(j, old) ==
    IF j.t = "null" THEN NilMap
    ELSE IF j.t # "val" THEN old
    ELSE [nil |-> FALSE,
          kv |-> [x \in (IF old.nil THEN {} ELSE DOMAIN old.kv) \cup DOMAIN j.v |->
                     IF x \in DOMAIN j.v THEN j.v[x] ELSE old.kv[x]]]

(* json.Unmarshal(data, state): input that is not valid JSON is rejected  *)
(* before anything is stored; the error is dropped by the caller           *)
Unmarshal(file, s) ==
    IF file.kind # "json" THEN s
    ELSE UserState(DecodeString(file.model, s.Model),
                   DecodeString(file.system_prompt, s.SystemPrompt),
                   DecodeSlice(file.history, s.History),
                   DecodeMap(file.presets, s.Presets),
                   DecodeString(file.pending_input, s.PendingInput))

DefaultState == UserState(DefaultModel, DefaultSystemPrompt, <<>>, EmptyMap, "")

SeedPreset(s) ==
    [s EXCEPT !.Presets = MapPut(s.Presets, "1", Preset(s.Model, s.SystemPrompt))]

(* state.Presets["1"] = ... on a nil map is a run-time panic *)
loadPanics(file) ==
    /\ file.kind # "missing"
    /\ Unmarshal(file, DefaultState).Presets.nil

LoadAlwaysSeeds(file) ==
    IF file.kind = "missing" THEN SeedPreset(DefaultState)
    ELSE SeedPreset(Unmarshal(file, DefaultState))

loadUserState(file) ==
    IF file.kind = "missing" THEN SeedPreset(DefaultState)
    ELSE LET s == Unmarshal(file, DefaultState)
         IN  IF MapLen(s.Presets) = 0 THEN SeedPreset(s) ELSE s

saveUserState(state) == Marshal(state)

----------------------------------------------------------------------------
(* sendChat: the history update *)

AppendTurn(h, role, content) == Append(h, ChatMessage(role, content))

TrimHistoryTo42(h) ==
    IF Len(h) > HistoryLimit + 2
    THEN SubSeq(h, Len(h) - HistoryLimit - 1, Len(h))
    ELSE h

TrimHistory(h) ==
    IF Len(h) > HistoryLimit
    THEN SubSeq(h, Len(h) - HistoryLimit + 1, Len(h))
    ELSE h

(* the messages of the request: system prompt, history, new user turn *)
BuildMessages(s, message) ==
    (IF s.SystemPrompt # "" THEN << ChatMessage("system", s.SystemPrompt) >> ELSE << >>)
    \o s.History \o << ChatMessage("user", message) >>

----------------------------------------------------------------------------
(* The queue of a conversation: a buffered channel *)

NewQueue == [nil |-> FALSE, buf |-> << >>]

QueueFullOneLater(q) == Len(q.buf) > QueueCap

(* a send on a channel made with capacity 10 cannot proceed when 10       *)
(* elements are buffered                                                   *)
QueueFull(q) == Len(q.buf) >= QueueCap

----------------------------------------------------------------------------
(* State *)

VARIABLES
    userStates,   \* the cache: conversation id -> *UserState or Nil
    userQueues,   \* conversation id -> channel or Nil
    disk,         \* conversation id -> the file user_<id>.json
    mu,           \* holder of the mutex, or "free"
    crashed,      \* the process died of a run-time panic
    pc,           \* position of each worker goroutine
    wmsg,         \* worker local: msg
    wres,         \* worker local: result of the HTTP round trip
    wstate,       \* worker local: the *UserState sendChat works on
    nworkers,     \* conversation id -> number of workers started
    fate,         \* per conversation, what OnText did with each text
    waits,        \* per conversation, number of "Please wait" notices
    accepted,     \* per conversation, the texts put into the channel
    presented,    \* per conversation, the texts passed to sendChat
    outcome,      \* per conversation, what the worker told the user
    lim,          \* how much the environment does: texts, commands, responses
    ncmds,        \* per conversation, commands handled so far
    nresp         \* per conversation, HTTP round trips finished so far

vars == << userStates, userQueues, disk, mu, crashed, pc, wmsg, wres, wstate,
           nworkers, fate, waits, accepted, presented, outcome, lim, ncmds, nresp >>

NoRef == [ref |-> "none"]
CacheRef == [ref |-> "cache"]
OwnRef(s) == [ref |-> "own", val |-> s]

(* the struct a worker's state pointer refers to *)
StateOf(w) == IF wstate[w].ref = "cache" THEN userStates[w[1]] ELSE wstate[w].val

(* workers that hold the cached struct of a conversation in cs keep it    *)
(* when the cache entry is replaced or deleted                             *)
Detached(cs) ==
    [w \in Workers |->
        IF w[1] \in cs /\ wstate[w].ref = "cache"
        THEN OwnRef(userStates[w[1]])
        ELSE wstate[w]]

InSendChat == {"http", "append2", "trim"}
InDelivery == {"notify", "reportErr", "noresp", "plain", "html", "split"}

InitWith(limits, files) ==
    /\ userStates = [c \in Chats |-> Nil]
    /\ userQueues = [c \in Chats |-> Nil]
    /\ disk = files
    /\ mu = "free"
    /\ crashed = FALSE
    /\ pc = [w \in Workers |-> "none"]
    /\ wmsg = [w \in Workers |-> ""]
    /\ wres = [w \in Workers |-> ""]
    /\ wstate = [w \in Workers |-> NoRef]
    /\ nworkers = [c \in Chats |-> 0]
    /\ fate = [c \in Chats |-> << >>]
    /\ waits = [c \in Chats |-> 0]
    /\ accepted = [c \in Chats |-> << >>]
    /\ presented = [c \in Chats |-> << >>]
    /\ outcome = [c \in Chats |-> << >>]
    /\ lim = limits
    /\ ncmds = [c \in Chats |-> 0]
    /\ nresp = [c \in Chats |-> 0]

Limits(texts, cmds, resp) == [texts |-> texts, cmds |-> cmds, resp |-> resp]

Init == InitWith(Limits([c \in Chats |-> IF c = 1 THEN MaxTexts ELSE 1],
                        [c \in Chats |-> IF c = 1 THEN MaxCmds ELSE 0],
                        [c \in Chats |-> IF c = 1 THEN MaxResp ELSE 0]),
                 [c \in Chats |-> NoFile])

----------------------------------------------------------------------------
(* Command handlers *)

HandlerFrame ==
    UNCHANGED << userQueues, mu, pc, wmsg, wres, nworkers, fate, waits,
                 accepted, presented, outcome, lim, nresp >>

Loaded(c) == loadUserState(disk[c])

CommandArrives(c) ==
    /\ ~crashed
    /\ ncmds[c] < lim.cmds[c]
    /\ ncmds' = [ncmds EXCEPT ![c] = @ + 1]

(* state := loadUserState(id); change it; save it if the handler does;    *)
(* userStates[id] = state                                                  *)
(* changed is the loaded struct after the handler's assignments            *)
LoadChangeStore(c, changed, save) ==
    IF loadPanics(disk[c])
    THEN /\ crashed' = TRUE
         /\ UNCHANGED << userStates, wstate, disk >>
    ELSE /\ userStates' = [userStates EXCEPT ![c] = changed]
         /\ wstate' = Detached({c})
         /\ disk' = IF save THEN [disk EXCEPT ![c] = saveUserState(changed)] ELSE disk
         /\ UNCHANGED crashed

CmdStart(c) ==
    /\ CommandArrives(c)
    /\ LoadChangeStore(c, Loaded(c), FALSE)
    /\ HandlerFrame

CmdStatus(c) ==
    /\ CommandArrives(c)
    /\ LoadChangeStore(c, Loaded(c), FALSE)
    /\ HandlerFrame

CmdModel(c) ==
    /\ CommandArrives(c)
    /\ LoadChangeStore(c, [Loaded(c) EXCEPT !.PendingInput = "model"], TRUE)
    /\ HandlerFrame

CmdSystem(c) ==
    /\ CommandArrives(c)
    /\ LoadChangeStore(c, [Loaded(c) EXCEPT !.PendingInput = "system"], TRUE)
    /\ HandlerFrame

CmdReset(c) ==
    /\ CommandArrives(c)
    /\ LoadChangeStore(c, [Loaded(c) EXCEPT !.SystemPrompt = DefaultSystemPrompt], TRUE)
    /\ HandlerFrame

CmdClear(c) ==
    /\ CommandArrives(c)
    /\ LoadChangeStore(c, [Loaded(c) EXCEPT !.History = << >>], TRUE)
    /\ HandlerFrame

CmdNew(c) ==
    /\ CommandArrives(c)
    /\ disk' = [disk EXCEPT ![c] = NoFile]
    /\ mu = "free"
    /\ userStates' = [userStates EXCEPT ![c] = Nil]
    /\ wstate' = Detached({c})
    /\ UNCHANGED crashed
    /\ HandlerFrame

CmdSet(c) ==
    /\ CommandArrives(c)
    /\ \E slot \in Slots, model \in PresetModels :
          LoadChangeStore(c,
              [Loaded(c) EXCEPT !.Presets = MapPut(@, slot, Preset(model, DefaultSystemPrompt))],
              TRUE)
    /\ HandlerFrame

CmdPreset(c) ==
    /\ CommandArrives(c)
    /\ \E slot \in Slots :
          IF (~loadPanics(disk[c])) /\ ~MapHas(Loaded(c).Presets, slot)
          THEN UNCHANGED << userStates, wstate, disk, crashed >>
          ELSE LoadChangeStore(c,
                   [Loaded(c) EXCEPT !.Model = Loaded(c).Presets.kv[slot].Model,
                                     !.SystemPrompt = Loaded(c).Presets.kv[slot].SystemPrompt],
                   TRUE)
    /\ HandlerFrame

(* the ticker goroutine: every entry but the bot's own id is deleted *)
Sweep ==
    /\ ~crashed
    /\ mu = "free"
    /\ userStates' = [c \in Chats |-> IF c # MeID THEN Nil ELSE userStates[c]]
    /\ wstate' = Detached({c \in Chats : c # MeID})
    /\ UNCHANGED << disk, crashed, ncmds >>
    /\ HandlerFrame

----------------------------------------------------------------------------
(* The text handler *)

NeedsWorkerAlways(c) == TRUE

(* if userQueues[id] == nil: make the channel and start the worker *)
NeedsWorker(c) == userQueues[c] = Nil

TrySendSilent(q, msg) ==
    IF QueueFull(q)
    THEN [q |-> q, sent |-> FALSE, notice |-> FALSE]
    ELSE [q |-> [q EXCEPT !.buf = Append(@, msg)], sent |-> TRUE, notice |-> FALSE]

(* select { case queue <- msg: ... default: c.Send("Please wait ...") } *)
TrySend(q, msg) ==
    IF QueueFull(q)
    THEN [q |-> q, sent |-> FALSE, notice |-> TRUE]
    ELSE [q |-> [q EXCEPT !.buf = Append(@, msg)], sent |-> TRUE, notice |-> FALSE]

(* a text that answers /model or /system is written into the cached struct *)
AnswerPending(c, msg, kind) ==
    LET state == IF kind = "model"
                 THEN [userStates[c] EXCEPT !.Model = msg, !.PendingInput = ""]
                 ELSE [userStates[c] EXCEPT !.SystemPrompt = msg, !.PendingInput = ""]
    IN  /\ userStates' = [userStates EXCEPT ![c] = state]
        /\ disk' = [disk EXCEPT ![c] = saveUserState(state)]
        /\ fate' = [fate EXCEPT ![c] = Append(@, kind)]
        /\ UNCHANGED << userQueues, mu, pc, nworkers, waits, accepted >>

Enqueue(c, msg) ==
    LET spawn == NeedsWorker(c)
        queue == IF userQueues[c] = Nil THEN NewQueue ELSE userQueues[c]
        r     == TrySend(queue, msg)
        w     == << c, nworkers[c] + 1 >>
    IN  /\ mu = "free"
        /\ spawn => nworkers[c] < MaxWorkers
        /\ pc' = IF spawn THEN [pc EXCEPT ![w] = "start"] ELSE pc
        /\ nworkers' = IF spawn THEN [nworkers EXCEPT ![c] = @ + 1] ELSE nworkers
        /\ userQueues' = [userQueues EXCEPT ![c] = r.q]
        /\ fate' = [fate EXCEPT ![c] = Append(@, IF r.sent THEN "queued" ELSE "rejected")]
        /\ accepted' = IF r.sent THEN [accepted EXCEPT ![c] = Append(@, msg)] ELSE accepted
        /\ waits' = IF r.notice THEN [waits EXCEPT ![c] = @ + 1] ELSE waits
        /\ UNCHANGED << userStates, disk, mu >>

OnText(c) ==
    /\ ~crashed
    /\ Len(fate[c]) < lim.texts[c]
    /\ LET msg == Text(Len(fate[c]) + 1)
       IN  IF userStates[c] # Nil /\ userStates[c].PendingInput = "model"
           THEN AnswerPending(c, msg, "model")
           ELSE IF userStates[c] # Nil /\ userStates[c].PendingInput = "system"
           THEN AnswerPending(c, msg, "system")
           ELSE Enqueue(c, msg)
    /\ UNCHANGED << crashed, wmsg, wres, wstate, presented, outcome, lim, ncmds, nresp >>

----------------------------------------------------------------------------
(* The worker: processMessageQueue *)

WorkerFrame ==
    UNCHANGED << mu, nworkers, fate, waits, accepted, lim, ncmds >>

(* queue := userQueues[chatID]; ranging over a nil channel blocks for ever *)
ProcessStart(w) ==
    /\ ~crashed
    /\ pc[w] = "start"
    /\ pc' = [pc EXCEPT ![w] = IF userQueues[w[1]] = Nil THEN "blocked" ELSE "recv"]
    /\ UNCHANGED << userStates, userQueues, disk, crashed, wmsg, wres, wstate,
                    presented, outcome, nresp >>
    /\ WorkerFrame

ChanRecvNewest(buf) == [msg |-> buf[Len(buf)], rest |-> SubSeq(buf, 1, Len(buf) - 1)]

(* a receive takes the element that was sent first *)
ChanRecv(buf) == [msg |-> Head(buf), rest |-> Tail(buf)]

(* for msg := range queue *)
Receive(w) ==
    /\ ~crashed
    /\ pc[w] = "recv"
    /\ userQueues[w[1]] # Nil
    /\ Len(userQueues[w[1]].buf) > 0
    /\ wmsg' = [wmsg EXCEPT ![w] = ChanRecv(userQueues[w[1]].buf).msg]
    /\ userQueues' = [userQueues EXCEPT ![w[1]].buf = ChanRecv(@).rest]
    /\ pc' = [pc EXCEPT ![w] = "notify"]
    /\ UNCHANGED << userStates, disk, crashed, wres, wstate, presented, outcome, nresp >>
    /\ WorkerFrame

SendChatBeginLocked(w) ==
    /\ ~crashed
    /\ pc[w] = "notify"
    /\ mu = "free"
    /\ mu' = w
    /\ userStates' = IF userStates[w[1]] = Nil
                     THEN [userStates EXCEPT ![w[1]] = loadUserState(disk[w[1]])]
                     ELSE userStates
    /\ wstate' = [wstate EXCEPT ![w] = CacheRef]
    /\ presented' = [presented EXCEPT ![w[1]] = Append(@, wmsg[w])]
    /\ pc' = [pc EXCEPT ![w] = "http"]
    /\ UNCHANGED << userQueues, disk, crashed, wmsg, wres, outcome, nresp,
                    nworkers, fate, waits, accepted, lim, ncmds >>

(* bot.Notify returns; sendChat is called and runs up to httpClient.Do *)
SendChatBegin(w) ==
    /\ ~crashed
    /\ pc[w] = "notify"
    /\ LET c == w[1]
       IN  IF userStates[c] = Nil /\ loadPanics(disk[c])
           THEN /\ crashed' = TRUE
                /\ UNCHANGED << userStates, wstate, pc, presented >>
           ELSE /\ userStates' = IF userStates[c] = Nil
                                 THEN [userStates EXCEPT ![c] = loadUserState(disk[c])]
                                 ELSE userStates
                /\ wstate' = [wstate EXCEPT ![w] = CacheRef]
                /\ presented' = [presented EXCEPT ![c] = Append(@, wmsg[w])]
                /\ pc' = [pc EXCEPT ![w] = "http"]
                /\ UNCHANGED crashed
    /\ UNCHANGED << userQueues, disk, wmsg, wres, outcome, nresp >>
    /\ WorkerFrame

(* the worker's struct is the cached one or one that left the cache *)
WriteState(w, s) ==
    IF wstate[w].ref = "cache"
    THEN /\ userStates' = [userStates EXCEPT ![w[1]] = s]
         /\ UNCHANGED wstate
    ELSE /\ wstate' = [wstate EXCEPT ![w] = OwnRef(s)]
         /\ UNCHANGED userStates

HttpReturns(w) ==
    /\ ~crashed
    /\ pc[w] = "http"
    /\ nresp[w[1]] < lim.resp[w[1]]
    /\ nresp' = [nresp EXCEPT ![w[1]] = @ + 1]
    /\ UNCHANGED << userQueues, disk, crashed, wmsg, presented, outcome >>
    /\ WorkerFrame

CompletionFailsAfterAppend(w) ==
    /\ HttpReturns(w)
    /\ wres' = [wres EXCEPT ![w] = "error"]
    /\ pc' = [pc EXCEPT ![w] = "reportErr"]
    /\ userStates' = IF wstate[w].ref = "cache"
                     THEN [userStates EXCEPT ![w[1]].History = AppendTurn(@, "user", wmsg[w])]
                     ELSE userStates
    /\ wstate' = [wstate EXCEPT ![w] = NoRef]

(* httpClient.Do fails, the status is not 2xx, or the body does not decode *)
CompletionFails(w) ==
    /\ HttpReturns(w)
    /\ \E f \in Failures : wres' = [wres EXCEPT ![w] = "error"]
    /\ pc' = [pc EXCEPT ![w] = "reportErr"]
    /\ wstate' = [wstate EXCEPT ![w] = NoRef]
    /\ UNCHANGED userStates

(* len(response.Choices) == 0: return "", nil *)
CompletionNoChoices(w) ==
    /\ HttpReturns(w)
    /\ wres' = [wres EXCEPT ![w] = ""]
    /\ pc' = [pc EXCEPT ![w] = "noresp"]
    /\ wstate' = [wstate EXCEPT ![w] = NoRef]
    /\ UNCHANGED userStates

(* a reply arrives; state.History = append(state.History, user turn) *)
CompletionSucceeds(w) ==
    /\ HttpReturns(w)
    /\ \E r \in Replies : wres' = [wres EXCEPT ![w] = r]
    /\ WriteState(w, [StateOf(w) EXCEPT !.History = AppendTurn(@, "user", wmsg[w])])
    /\ pc' = [pc EXCEPT ![w] = "append2"]

(* state.History = append(state.History, assistant turn) *)
AppendReply(w) ==
    /\ ~crashed
    /\ pc[w] = "append2"
    /\ WriteState(w, [StateOf(w) EXCEPT !.History = AppendTurn(@, "assistant", wres[w])])
    /\ pc' = [pc EXCEPT ![w] = "trim"]
    /\ UNCHANGED << userQueues, disk, crashed, wmsg, wres, presented, outcome, nresp >>
    /\ WorkerFrame

(* the trim to the last 40, saveUserState, return assistantReply, nil *)
TrimAndSave(w) ==
    /\ ~crashed
    /\ pc[w] = "trim"
    /\ LET s == [StateOf(w) EXCEPT !.History = TrimHistory(@)]
       IN  /\ disk' = [disk EXCEPT ![w[1]] = saveUserState(s)]
           /\ userStates' = IF wstate[w].ref = "cache"
                            THEN [userStates EXCEPT ![w[1]] = s]
                            ELSE userStates
    /\ wstate' = [wstate EXCEPT ![w] = NoRef]
    /\ pc' = [pc EXCEPT ![w] = IF wres[w] = "" THEN "noresp" ELSE "plain"]
    /\ UNCHANGED << userQueues, crashed, wmsg, wres, presented, outcome, nresp >>
    /\ WorkerFrame

(* a c.Send of the worker returns and the loop goes on *)
Told(w, what, next) ==
    /\ ~crashed
    /\ outcome' = IF next = "recv"
                  THEN [outcome EXCEPT ![w[1]] = Append(@, what)]
                  ELSE outcome
    /\ pc' = [pc EXCEPT ![w] = next]
    /\ UNCHANGED << userStates, userQueues, disk, crashed, wmsg, wres, wstate,
                    presented, nresp >>
    /\ WorkerFrame

ReportErrorAndReturn(w) ==
    /\ pc[w] = "reportErr"
    /\ Told(w, wres[w], "done")

(* c.Send("Request timed out ...") or c.Send("Error: " + errMsg), both    *)
(* logged as "error"; continue                                            *)
ReportError(w) ==
    /\ pc[w] = "reportErr"
    /\ Told(w, wres[w], "recv")

ReportNoResponseAndReturn(w) ==
    /\ pc[w] = "noresp"
    /\ Told(w, "noresp", "done")

(* c.Send("No response received."); continue *)
ReportNoResponse(w) ==
    /\ pc[w] = "noresp"
    /\ Told(w, "noresp", "recv")

SendPlainThenHTML(w) ==
    /\ pc[w] = "plain"
    /\ ~crashed
    /\ \E ok \in BOOLEAN :
          outcome' = IF ok THEN [outcome EXCEPT ![w[1]] = Append(@, "reply")]
                     ELSE outcome
    /\ pc' = [pc EXCEPT ![w] = "html"]
    /\ UNCHANGED << userStates, userQueues, disk, crashed, wmsg, wres, wstate,
                    presented, nresp >>
    /\ WorkerFrame

(* err = c.Send(response) *)
SendPlain(w) ==
    /\ pc[w] = "plain"
    /\ \E ok \in BOOLEAN : Told(w, "reply", IF ok THEN "recv" ELSE "html")

(* err = c.Send(convertMarkdownToHTML(response), telebot.ModeHTML) *)
SendHTML(w) ==
    /\ pc[w] = "html"
    /\ \E ok \in BOOLEAN : Told(w, "reply", IF ok THEN "recv" ELSE "split")

(* splitAndSend(c, response); its error is dropped *)
SendSplit(w) ==
    /\ pc[w] = "split"
    /\ Told(w, "reply", "recv")

----------------------------------------------------------------------------
(* Specifications *)

Next ==
    \/ \E c \in Chats : CmdStart(c)
    \/ \E c \in Chats : CmdStatus(c)
    \/ \E c \in Chats : CmdModel(c)
    \/ \E c \in Chats : CmdSystem(c)
    \/ \E c \in Chats : CmdReset(c)
    \/ \E c \in Chats : CmdClear(c)
    \/ \E c \in Chats : CmdNew(c)
    \/ \E c \in Chats : CmdSet(c)
    \/ \E c \in Chats : CmdPreset(c)
    \/ \E c \in Chats : OnText(c)
    \/ Sweep
    \/ \E w \in Workers : ProcessStart(w)
    \/ \E w \in Workers : Receive(w)
    \/ \E w \in Workers : SendChatBegin(w)
    \/ \E w \in Workers : CompletionFails(w)
    \/ \E w \in Workers : CompletionNoChoices(w)
    \/ \E w \in Workers : CompletionSucceeds(w)
    \/ \E w \in Workers : AppendReply(w)
    \/ \E w \in Workers : TrimAndSave(w)
    \/ \E w \in Workers : ReportError(w)
    \/ \E w \in Workers : ReportNoResponse(w)
    \/ \E w \in Workers : SendPlain(w)
    \/ \E w \in Workers : SendHTML(w)
    \/ \E w \in Workers : SendSplit(w)

Spec == Init /\ [][Next]_vars

(* one conversation is sent more texts than its channel holds while the   *)
(* other gets a single text; no commands                                   *)
InitCap == InitWith(Limits([c \in Chats |-> IF c = 1 THEN CapTexts ELSE 1],
                           [c \in Chats |-> 0],
                           [c \in Chats |-> IF c = 1 THEN CapResp ELSE 0]),
                    [c \in Chats |-> NoFile])

NextCap ==
    \/ \E c \in Chats : OnText(c)
    \/ Sweep
    \/ \E w \in Workers : ProcessStart(w)
    \/ \E w \in Workers : Receive(w)
    \/ \E w \in Workers : SendChatBegin(w)
    \/ \E w \in Workers : CompletionFails(w)
    \/ \E w \in Workers : CompletionNoChoices(w)
    \/ \E w \in Workers : CompletionSucceeds(w)
    \/ \E w \in Workers : AppendReply(w)
    \/ \E w \in Workers : TrimAndSave(w)
    \/ \E w \in Workers : ReportError(w)
    \/ \E w \in Workers : ReportNoResponse(w)
    \/ \E w \in Workers : SendPlain(w)
    \/ \E w \in Workers : SendHTML(w)
    \/ \E w \in Workers : SendSplit(w)

SpecCap == InitCap /\ [][NextCap]_vars

(* a record written by an earlier run: forty turns, user and assistant    *)
(* in turn                                                                 *)
OldHistory ==
    [i \in 1..HistoryLimit |->
        ChatMessage(IF i % 2 = 1 THEN "user" ELSE "assistant", "old")]

OldRecord ==
    saveUserState([SeedPreset(DefaultState) EXCEPT !.History = OldHistory])

(* one conversation whose stored history is at the limit *)
InitHist == InitWith(Limits([c \in Chats |-> IF c = 1 THEN HistTexts ELSE 0],
                            [c \in Chats |-> IF c = 1 THEN HistCmds ELSE 0],
                            [c \in Chats |-> IF c = 1 THEN HistResp ELSE 0]),
                     [c \in Chats |-> IF c = 1 THEN OldRecord ELSE NoFile])

SpecHist == InitHist /\ [][Next]_vars

----------------------------------------------------------------------------
(* Properties *)

IsPrefix(s, t) == Len(s) <= Len(t) /\ SubSeq(t, 1, Len(s)) = s

Buf(c) == IF userQueues[c] = Nil THEN << >> ELSE userQueues[c].buf

WorkersOf(c) == {w \in Workers : w[1] = c}

(* the state a conversation has: the cached struct, or what a load gives *)
EffectiveState(c) == IF userStates[c] # Nil THEN userStates[c] ELSE loadUserState(disk[c])

(* C1: in every state, each conversation has at most one sendChat call   *)
(* that has started and not returned.                                     *)
C1_OneCompletionPerConversation ==
    \A c \in Chats : Cardinality({w \in WorkersOf(c) : pc[w] \in InSendChat}) <= 1

C1_Witness ==
    \E w \in Workers :
        /\ pc[w] = "http"
        /\ Len(Buf(w[1])) > 0
        /\ ncmds[w[1]] > 0
        /\ userStates[w[1]] = Nil

(* C2: the texts accepted into a conversation's channel are exactly the   *)
(* texts passed to sendChat so far, in that order, followed by the text   *)
(* the worker has just received and the texts still in the channel.       *)
C2_PresentedInAcceptedOrder ==
    \A c \in Chats :
        LET hands == {w \in WorkersOf(c) : pc[w] = "notify"}
        IN  IF hands = {}
            THEN accepted[c] = presented[c] \o Buf(c)
            ELSE \E w \in hands : accepted[c] = presented[c] \o << wmsg[w] >> \o Buf(c)

C2_Witness ==
    \E c \in Chats :
        /\ Len(presented[c]) >= 2
        /\ presented[c][1] # presented[c][2]
        /\ Len(outcome[c]) >= 1

(* C8: sendChat changes neither the conversation's state nor its file     *)
(* before the response is there, and nothing at all when the completion   *)
(* fails: no turn is appended and no file is written.                     *)
C8_FailedCompletionChangesNothing ==
    [][\A w \in Workers :
          /\ (pc[w] = "notify" /\ pc'[w] = "http") =>
                 /\ disk' = disk
                 /\ EffectiveState(w[1])' = EffectiveState(w[1])
          /\ (pc[w] = "http" /\ pc'[w] = "reportErr") =>
                 /\ disk' = disk
                 /\ userStates' = userStates
                 /\ \A v \in Workers \ {w} : wstate'[v] = wstate[v]
      ]_vars

C8_Witness ==
    \E w \in Workers :
        /\ pc[w] = "reportErr"
        /\ userStates[w[1]] # Nil
        /\ Len(userStates[w[1]].History) = 2
        /\ disk[w[1]] = saveUserState(userStates[w[1]])

(* C9: a worker that reports a failed completion stays in its loop: its   *)
(* next position is the receive, the user has been told the error, and    *)
(* the texts waiting in the channel are all still there.                  *)
C9_WorkerSurvivesFailure ==
    [][\A w \in Workers :
          /\ (pc[w] = "http" /\ pc'[w] = "reportErr") => userQueues' = userQueues
          /\ pc[w] = "reportErr" =>
                 /\ pc'[w] \in {"reportErr", "recv"}
                 /\ IsPrefix(Buf(w[1]), Buf(w[1])')
                 /\ pc'[w] = "recv" =>
                        /\ wres[w] = "error"
                        /\ outcome'[w[1]] = Append(outcome[w[1]], wres[w])
      ]_vars

C9_Witness ==
    \E c \in Chats :
        /\ Len(outcome[c]) >= 1
        /\ outcome[c][1] = "error"
        /\ Len(presented[c]) >= 2

----------------------------------------------------------------------------
(* The store holds any file and a handler loads it *)

StoredStrings(v) == {JAbsent, JNull, JBad, JVal(v)}
StoredHistories ==
    {JAbsent, JNull, JBad,
     JVal(<< ChatMessage("user", "old"), ChatMessage("assistant", "old") >>)}
StoredPresets ==
    {JAbsent, JNull, JBad, JVal(<< >>),
     JVal([k \in {"2"} |-> Preset("m1", DefaultSystemPrompt)])}

Files ==
    {NoFile, GarbageFile} \cup
    {JsonFile(m, p, h, ps, pi) :
        m \in StoredStrings("m1"), p \in StoredStrings("p1"), h \in StoredHistories,
        ps \in StoredPresets, pi \in StoredStrings("model")}

InitLoad ==
    \E f \in Files :
        InitWith(Limits([c \in Chats |-> 0],
                        [c \in Chats |-> IF c = 1 THEN LoadCmds ELSE 0],
                        [c \in Chats |-> 0]),
                 [c \in Chats |-> IF c = 1 THEN f ELSE NoFile])

NextLoad == \E c \in Chats : CmdStatus(c)

SpecLoad == InitLoad /\ [][NextLoad]_vars

(* C10: loading never aborts, and a conversation whose file is missing or *)
(* is not valid JSON gets the default model, the default system prompt,   *)
(* an empty history, no pending input and preset "1" made of the defaults.*)
C10_LoadAlwaysReturnsState ==
    /\ ~crashed
    /\ \A c \in Chats :
          (userStates[c] # Nil /\ disk[c].kind \in {"missing", "garbage"})
              => userStates[c] =
                     UserState(DefaultModel, DefaultSystemPrompt, << >>,
                               MapPut(EmptyMap, "1", Preset(DefaultModel, DefaultSystemPrompt)),
                               "")

----------------------------------------------------------------------------
(* Properties of the bounded channel, under SpecCap *)

(* sendChat calls of a conversation that have returned *)
CompletionsFinished(c) ==
    Len(presented[c]) - Cardinality({w \in WorkersOf(c) : pc[w] \in InSendChat})

Rejected(c) == {i \in 1..Len(fate[c]) : fate[c][i] = "rejected"}
Queued(c) == {i \in 1..Len(fate[c]) : fate[c][i] = "queued"}
InHand(c) == {w \in WorkersOf(c) : pc[w] = "notify"}

(* C3 as stated: when an 11th text is enqueued to a conversation before   *)
(* any of its completions has finished, that 11th enqueue is rejected.    *)
C3_EleventhEnqueueRejected ==
    \A c \in Chats :
        (Len(fate[c]) >= QueueCap + 1 /\ CompletionsFinished(c) = 0)
            => fate[c][QueueCap + 1] = "rejected"

(* C3 amended: before any completion of a conversation has finished, none *)
(* of its first 10 enqueues is rejected and at most 11 texts are accepted *)
(* (10 in the channel and the one the worker has taken out); the 11th     *)
(* enqueue is rejected when the worker has not yet received a text.       *)
C3_AtMostElevenAccepted ==
    \A c \in Chats :
        CompletionsFinished(c) = 0 =>
            /\ Len(accepted[c]) <= QueueCap + 1
            /\ \A i \in Rejected(c) : i > QueueCap
            /\ (Len(fate[c]) >= QueueCap + 1 /\ presented[c] = << >> /\ InHand(c) = {})
                   => fate[c][QueueCap + 1] = "rejected"

C3_Witness ==
    \E c \in Chats :
        /\ CompletionsFinished(c) = 0
        /\ Len(accepted[c]) = QueueCap + 1
        /\ Len(fate[c]) = QueueCap + 2
        /\ fate[c][QueueCap + 1] = "queued"
        /\ fate[c][QueueCap + 2] = "rejected"

NotPending(c) == userStates[c] = Nil \/ userStates[c].PendingInput = ""
HasRoom(c) == userQueues[c] = Nil \/ ~QueueFull(userQueues[c])

(* C4: mu is free whenever a worker is inside a completion or a delivery  *)
(* call, and a conversation whose channel has room can always have its    *)
(* next text accepted, received and passed to sendChat, whatever the      *)
(* other conversations are doing.                                         *)
C4_NoGuardDuringIO ==
    /\ \A w \in Workers : pc[w] \in InSendChat \cup InDelivery => mu = "free"
    /\ \A c \in Chats :
          (~crashed /\ Len(fate[c]) < lim.texts[c] /\ NotPending(c) /\ HasRoom(c))
              => ENABLED (OnText(c) /\ Len(accepted'[c]) = Len(accepted[c]) + 1)
    /\ \A w \in Workers :
          /\ (~crashed /\ pc[w] = "recv" /\ Buf(w[1]) # << >>) => ENABLED Receive(w)
          /\ (~crashed /\ pc[w] = "notify") => ENABLED SendChatBegin(w)

C4_Witness ==
    \E c, d \in Chats :
        /\ c # d
        /\ Len(Buf(c)) = QueueCap
        /\ \E w \in WorkersOf(c) : pc[w] = "plain"
        /\ waits[c] > 0
        /\ accepted[d] # << >>
        /\ \E w \in WorkersOf(d) : pc[w] = "http"

(* C5: the text handler is never blocked, and every text it has handled   *)
(* was answered as pending input, or was put into the channel (where it   *)
(* is waiting, or from where the worker has taken it), or was rejected    *)
(* with one "Please wait" notice.                                         *)
C5_EnqueueNeverBlocksNorDrops ==
    \A c \in Chats :
        /\ (~crashed /\ Len(fate[c]) < lim.texts[c]) => ENABLED OnText(c)
        /\ \A i \in 1..Len(fate[c]) : fate[c][i] \in {"model", "system", "queued", "rejected"}
        /\ Cardinality(Queued(c)) = Len(accepted[c])
        /\ \A i \in 1..Len(accepted[c]) : \E j \in Queued(c) : accepted[c][i] = Text(j)
        /\ Len(accepted[c]) = Len(presented[c]) + Cardinality(InHand(c)) + Len(Buf(c))
        /\ waits[c] = Cardinality(Rejected(c))

C5_Witness ==
    \E c \in Chats :
        /\ waits[c] >= 1
        /\ Len(Buf(c)) = QueueCap
        /\ Len(fate[c]) = Len(accepted[c]) + 1

----------------------------------------------------------------------------
(* Properties of the history, under SpecHist *)

(* no worker of the conversation is between the appends and the trim *)
NotUpdating(c) == \A w \in WorkersOf(c) : pc[w] \notin {"append2", "trim"}

Alternates(h) ==
    \A i \in 1..Len(h) : h[i].Role = IF i % 2 = 1 THEN "user" ELSE "assistant"

(* C6: whenever no completion is in the middle of its history update, the *)
(* history of every conversation has at most 40 turns.                    *)
C6_HistoryAtMostForty ==
    \A c \in Chats :
        NotUpdating(c) => Len(EffectiveState(c).History) <= HistoryLimit

(* C7: whenever no completion is in the middle of its history update, the *)
(* history of every conversation starts with a user turn and alternates   *)
(* user, assistant.                                                       *)
C7_HistoryAlternates ==
    \A c \in Chats :
        NotUpdating(c) => Alternates(EffectiveState(c).History)

----------------------------------------------------------------------------
(* saveUserState followed by loadUserState, under SpecStore *)

StoreLoads == 2

(* the structs a handler or sendChat can hold: every one was made by      *)
(* loadUserState, so its Presets is a map made with make(); the map is    *)
(* empty only before line 104 has seeded it                                *)
SavedPresets ==
    {EmptyMap,
     MapPut(EmptyMap, "1", Preset("m2", "p2")),
     MapPut(EmptyMap, "2", Preset("m2", "p2")),
     MapPut(MapPut(EmptyMap, "1", Preset(DefaultModel, DefaultSystemPrompt)),
            "2", Preset("m2", ""))}

SavedHistories ==
    {<< >>,
     << ChatMessage("user", "t1"), ChatMessage("assistant", "r") >>,
     << ChatMessage("user", "t1"), ChatMessage("assistant", ""),
        ChatMessage("user", "t2") >>}

SavedStates ==
    {UserState(m, p, h, ps, pi) :
        m \in {"m1", ""}, p \in {"p1", ""}, h \in SavedHistories,
        ps \in SavedPresets, pi \in {"", "model", "system"}}

InitStore ==
    /\ \E s \in SavedStates : userStates = [c \in Chats |-> IF c = 1 THEN s ELSE Nil]
    /\ userQueues = [c \in Chats |-> Nil]
    /\ disk = [c \in Chats |-> NoFile]
    /\ mu = "free"
    /\ crashed = FALSE
    /\ pc = [w \in Workers |-> "none"]
    /\ wmsg = [w \in Workers |-> ""]
    /\ wres = [w \in Workers |-> ""]
    /\ wstate = [w \in Workers |-> NoRef]
    /\ nworkers = [c \in Chats |-> 0]
    /\ fate = [c \in Chats |-> << >>]
    /\ waits = [c \in Chats |-> 0]
    /\ accepted = [c \in Chats |-> << >>]
    /\ presented = [c \in Chats |-> << >>]
    /\ outcome = [c \in Chats |-> << >>]
    /\ lim = Limits([c \in Chats |-> 0],
                    [c \in Chats |-> IF c = 1 THEN 1 + StoreLoads ELSE 0],
                    [c \in Chats |-> 0])
    /\ ncmds = [c \in Chats |-> 0]
    /\ nresp = [c \in Chats |-> 0]

(* saveUserState(id, state) with the struct the caller holds *)
SaveState(c) ==
    /\ CommandArrives(c)
    /\ ncmds[c] = 0
    /\ userStates[c] # Nil
    /\ disk' = [disk EXCEPT ![c] = saveUserState(userStates[c])]
    /\ UNCHANGED << userStates, wstate, crashed >>
    /\ HandlerFrame

(* state := loadUserState(id) *)
LoadState(c) ==
    /\ CommandArrives(c)
    /\ ncmds[c] >= 1
    /\ IF loadPanics(disk[c])
       THEN crashed' = TRUE /\ UNCHANGED userStates
       ELSE userStates' = [userStates EXCEPT ![c] = Loaded(c)] /\ UNCHANGED crashed
    /\ UNCHANGED << disk, wstate >>
    /\ HandlerFrame

NextStore ==
    \/ \E c \in Chats : SaveState(c)
    \/ \E c \in Chats : LoadState(c)

SpecStore == InitStore /\ [][NextStore]_vars

(* C11: a load that follows a save returns the saved model, system        *)
(* prompt, history and pending input; the presets it returns are not      *)
(* empty, and they are the saved presets when those were not empty.       *)
C11_SaveLoadRoundTrip ==
    [][\A c \in Chats :
          (ncmds[c] >= 1 /\ ncmds'[c] > ncmds[c]) =>
              /\ ~crashed'
              /\ userStates'[c].Model = userStates[c].Model
              /\ userStates'[c].SystemPrompt = userStates[c].SystemPrompt
              /\ userStates'[c].History = userStates[c].History
              /\ userStates'[c].PendingInput = userStates[c].PendingInput
              /\ MapLen(userStates'[c].Presets) > 0
              /\ MapLen(userStates[c].Presets) > 0 =>
                     userStates'[c].Presets = userStates[c].Presets
      ]_vars

C11_Witness ==
    \E c \in Chats :
        /\ ncmds[c] = 1 + StoreLoads
        /\ disk[c].kind = "json"
        /\ disk[c].presets = JVal(<< >>)
        /\ disk[c].model = JVal("")
        /\ userStates[c].Presets = MapPut(EmptyMap, "1", Preset("", "p1"))
        /\ Len(userStates[c].History) = 3
        /\ userStates[c].PendingInput = "system"

----------------------------------------------------------------------------
(* splitAndSend, under SpecSplit.  A text is a sequence of runs: a run of *)
(* n characters that are neither a space nor a line break, one space, or  *)
(* one line break.  Two word runs never stand side by side in a text.     *)

maxLen == 4000
TransportLimit == 4096

MaxRuns == 4

WordLens == {1, 1999, 2000, 3999, 4001, 4097}

W(n) == [k |-> "w", n |-> n]
SP == [k |-> "sp", n |-> 1]
NL == [k |-> "nl", n |-> 1]

RECURSIVE StrLen(_)
StrLen(s) == IF s = << >> THEN 0 ELSE Head(s).n + StrLen(Tail(s))

(* s + t: the last run of s and the first of t are one run when both are  *)
(* word characters                                                         *)
Cat(s, t) ==
    IF s # << >> /\ t # << >> /\ s[Len(s)].k = "w" /\ t[1].k = "w"
    THEN SubSeq(s, 1, Len(s) - 1) \o << W(s[Len(s)].n + t[1].n) >> \o Tail(t)
    ELSE s \o t

RECURSIVE Concat(_)
Concat(ss) == IF ss = << >> THEN << >> ELSE Cat(Head(ss), Concat(Tail(ss)))

(* strings.Split(s, sep) for a one-character sep *)
RECURSIVE Split(_, _)
Split(s, sep) ==
    IF \A i \in 1..Len(s) : s[i] # sep
    THEN << s >>
    ELSE LET i == CHOOSE j \in 1..Len(s) : s[j] = sep /\ \A l \in 1..(j - 1) : s[l] # sep
         IN  << SubSeq(s, 1, i - 1) >> \o Split(SubSeq(s, i + 1, Len(s)), sep)

Texts ==
    {t \in UNION {[1..n -> {W(l) : l \in WordLens} \cup {SP, NL}] : n \in 1..MaxRuns} :
        \A i \in 1..(Len(t) - 1) : ~(t[i].k = "w" /\ t[i + 1].k = "w")}

(* for _, word := range words *)
RECURSIVE WordLoop(_, _, _)
WordLoop(words, chunk, sent) ==
    IF words = << >> THEN [chunk |-> chunk, sent |-> sent]
    ELSE LET word == Head(words)
             flush == StrLen(chunk) + StrLen(word) + 1 > maxLen
         IN  WordLoop(Tail(words),
                      Cat(Cat(IF flush THEN << >> ELSE chunk, word), << SP >>),
                      IF flush THEN Append(sent, chunk) ELSE sent)

(* for _, line := range lines *)
RECURSIVE LineLoop(_, _, _)
LineLoop(lines, chunk, sent) ==
    IF lines = << >> THEN [chunk |-> chunk, sent |-> sent]
    ELSE LET line == Head(lines)
         IN  IF line = << >>
             THEN LineLoop(Tail(lines), Cat(chunk, << NL >>), sent)
             ELSE IF StrLen(line) > maxLen
             THEN LET r == WordLoop(Split(line, SP), << >>,
                                    IF chunk # << >> THEN Append(sent, chunk) ELSE sent)
                  IN  LineLoop(Tail(lines), r.chunk, r.sent)
             ELSE IF StrLen(chunk) + StrLen(line) + 1 > maxLen
             THEN LineLoop(Tail(lines), line, Append(sent, chunk))
             ELSE LineLoop(Tail(lines), Cat(Cat(chunk, line), << NL >>), sent)

(* the chunks splitAndSend passes to c.Send when no c.Send fails *)
splitAndSend(text) ==
    IF StrLen(text) <= maxLen THEN << text >>
    ELSE LET r == LineLoop(Split(text, NL), << >>, << >>)
         IN  IF r.chunk # << >> THEN Append(r.sent, r.chunk) ELSE r.sent

(* Telegram takes no message that is empty or only white space, and none *)
(* longer than 4096                                                       *)
TransportTakes(chunk) ==
    /\ \E i \in 1..Len(chunk) : chunk[i].k = "w"
    /\ StrLen(chunk) <= TransportLimit

(* the worker has a reply that neither c.Send(response) nor the HTML form *)
(* delivered                                                               *)
InitSplit ==
    /\ \E t \in Texts : wres = [w \in Workers |-> IF w = << 1, 1 >> THEN t ELSE ""]
    /\ userStates = [c \in Chats |-> Nil]
    /\ userQueues = [c \in Chats |-> IF c = 1 THEN NewQueue ELSE Nil]
    /\ disk = [c \in Chats |-> NoFile]
    /\ mu = "free"
    /\ crashed = FALSE
    /\ pc = [w \in Workers |-> IF w = << 1, 1 >> THEN "split" ELSE "none"]
    /\ wmsg = [w \in Workers |-> IF w = << 1, 1 >> THEN Text(1) ELSE ""]
    /\ wstate = [w \in Workers |-> NoRef]
    /\ nworkers = [c \in Chats |-> IF c = 1 THEN 1 ELSE 0]
    /\ fate = [c \in Chats |-> IF c = 1 THEN << "queued" >> ELSE << >>]
    /\ waits = [c \in Chats |-> 0]
    /\ accepted = [c \in Chats |-> IF c = 1 THEN << Text(1) >> ELSE << >>]
    /\ presented = [c \in Chats |-> IF c = 1 THEN << Text(1) >> ELSE << >>]
    /\ outcome = [c \in Chats |-> << >>]
    /\ lim = Limits([c \in Chats |-> IF c = 1 THEN 1 ELSE 0],
                    [c \in Chats |-> 0],
                    [c \in Chats |-> IF c = 1 THEN 1 ELSE 0])
    /\ ncmds = [c \in Chats |-> 0]
    /\ nresp = [c \in Chats |-> IF c = 1 THEN 1 ELSE 0]

(* splitAndSend(c, response): the chunks go to c.Send in order until one  *)
(* c.Send fails; outcome gets every chunk passed to c.Send and its result *)
SplitAndSend(w) ==
    /\ ~crashed
    /\ pc[w] = "split"
    /\ LET chunks == splitAndSend(wres[w])
       IN  \E k \in 1..Len(chunks), ok \in BOOLEAN :
              /\ \A j \in 1..(k - 1) : TransportTakes(chunks[j])
              /\ ok => (k = Len(chunks) /\ TransportTakes(chunks[k]))
              /\ outcome' = [outcome EXCEPT ![w[1]] =
                                [j \in 1..k |-> [chunk |-> chunks[j], ok |-> (j < k \/ ok)]]]
    /\ pc' = [pc EXCEPT ![w] = "recv"]
    /\ UNCHANGED << userStates, userQueues, disk, crashed, wmsg, wres, wstate,
                    presented, nresp >>
    /\ WorkerFrame

NextSplit == \E w \in Workers : SplitAndSend(w)

SpecSplit == InitSplit /\ [][NextSplit]_vars

(* C12: every chunk splitAndSend passes to the transport has at most 4096 *)
(* characters.                                                             *)
C12_ChunksWithinCeiling ==
    \A c \in Chats : \A i \in 1..Len(outcome[c]) :
        StrLen(outcome[c][i].chunk) <= TransportLimit

NoLineBreak(text) == \A i \in 1..Len(text) : text[i].k # "nl"

(* every c.Send of splitAndSend succeeded *)
Delivered(c) == outcome[c] # << >> /\ \A i \in 1..Len(outcome[c]) : outcome[c][i].ok

Chunks(c) == [i \in 1..Len(outcome[c]) |-> outcome[c][i].chunk]

(* C13: splitAndSend passes a reply of exactly 4000 characters to the     *)
(* transport as one chunk; of a reply of 4001 characters without a line   *)
(* break it passes no chunk that is empty or longer than 4000, and when   *)
(* the transport takes them all they are two chunks that, put together,   *)
(* are the reply (a space at the very end apart).                         *)
C13_BoundarySplit ==
    \A w \in Workers :
        (pc[w] = "recv" /\ NoLineBreak(wres[w])) =>
            /\ StrLen(wres[w]) = maxLen =>
                   Chunks(w[1]) = << wres[w] >>
            /\ StrLen(wres[w]) = maxLen + 1 =>
                   /\ \A i \in 1..Len(outcome[w[1]]) :
                         StrLen(outcome[w[1]][i].chunk) \in 1..maxLen
                   /\ Delivered(w[1]) =>
                         /\ Len(outcome[w[1]]) = 2
                         /\ Concat(Chunks(w[1])) \in {wres[w], Cat(wres[w], << SP >>)}

----------------------------------------------------------------------------
(* convertMarkdownToHTML, under SpecHtml.  A text is a sequence of        *)
(* characters.  The characters of the replies are such that only the      *)
(* expressions of lines 614-619 can match: the others need a space, a     *)
(* line break, '#', '~', a backquote, '[', '-' or a digit.                *)

MaxChars == 4

Chars == {"<", ">", "&", "*", "_", "a"}

CharTexts == UNION {[1..n -> Chars] : n \in 1..MaxChars}

(* strings.ReplaceAll(text, old, new) for a one-character old *)
RECURSIVE ReplaceAll(_, _, _)
ReplaceAll(text, old, new) ==
    IF text = << >> THEN << >>
    ELSE (IF Head(text) = old THEN new ELSE << Head(text) >>)
         \o ReplaceAll(Tail(text), old, new)

StartsAt(text, i, d) ==
    i + Len(d) - 1 <= Len(text) /\ SubSeq(text, i, i + Len(d) - 1) = d

(* regexp.MustCompile(d(.+?)d).ReplaceAllString(text, open$1close): the   *)
(* leftmost d that has a second d at least one character later, up to the *)
(* nearest such d; then the same on the rest of the text                  *)
RECURSIVE ReplaceDelimited(_, _, _, _)
ReplaceDelimited(text, d, open, close) ==
    LET n == Len(d)
        Ends(i) == {j \in (i + n + 1)..Len(text) : StartsAt(text, j, d)}
        Starts == {i \in 1..Len(text) : StartsAt(text, i, d) /\ Ends(i) # {}}
    IN  IF Starts = {} THEN text
        ELSE LET i == CHOOSE x \in Starts : \A y \in Starts : x <= y
                 j == CHOOSE x \in Ends(i) : \A y \in Ends(i) : x <= y
             IN  SubSeq(text, 1, i - 1) \o open \o SubSeq(text, i + n, j - 1) \o close
                 \o ReplaceDelimited(SubSeq(text, j + n, Len(text)), d, open, close)

TagB == << "<", "b", ">" >>
TagBEnd == << "<", "/", "b", ">" >>
TagI == << "<", "i", ">" >>
TagIEnd == << "<", "/", "i", ">" >>
EntityLt == << "&", "l", "t", ";" >>

(* lines 601-603 *)
Escape(text) ==
    ReplaceAll(ReplaceAll(ReplaceAll(text, "&", << "&", "a", "m", "p", ";" >>),
                          "<", EntityLt),
               ">", << "&", "g", "t", ";" >>)

(* lines 614-619 *)
Substitute(text) ==
    ReplaceDelimited(
        ReplaceDelimited(
            ReplaceDelimited(
                ReplaceDelimited(text, << "*", "*" >>, TagB, TagBEnd),
                << "_", "_" >>, TagB, TagBEnd),
            << "*" >>, TagI, TagIEnd),
        << "_" >>, TagI, TagIEnd)

SubstituteThenEscape(text) == Escape(Substitute(text))

convertMarkdownToHTML(text) == Substitute(Escape(text))

(* the worker has a reply that c.Send(response) did not deliver *)
InitHtml ==
    /\ \E t \in CharTexts : wres = [w \in Workers |-> IF w = << 1, 1 >> THEN t ELSE ""]
    /\ userStates = [c \in Chats |-> Nil]
    /\ userQueues = [c \in Chats |-> IF c = 1 THEN NewQueue ELSE Nil]
    /\ disk = [c \in Chats |-> NoFile]
    /\ mu = "free"
    /\ crashed = FALSE
    /\ pc = [w \in Workers |-> IF w = << 1, 1 >> THEN "html" ELSE "none"]
    /\ wmsg = [w \in Workers |-> IF w = << 1, 1 >> THEN Text(1) ELSE ""]
    /\ wstate = [w \in Workers |-> NoRef]
    /\ nworkers = [c \in Chats |-> IF c = 1 THEN 1 ELSE 0]
    /\ fate = [c \in Chats |-> IF c = 1 THEN << "queued" >> ELSE << >>]
    /\ waits = [c \in Chats |-> 0]
    /\ accepted = [c \in Chats |-> IF c = 1 THEN << Text(1) >> ELSE << >>]
    /\ presented = [c \in Chats |-> IF c = 1 THEN << Text(1) >> ELSE << >>]
    /\ outcome = [c \in Chats |-> << >>]
    /\ lim = Limits([c \in Chats |-> IF c = 1 THEN 1 ELSE 0],
                    [c \in Chats |-> 0],
                    [c \in Chats |-> IF c = 1 THEN 1 ELSE 0])
    /\ ncmds = [c \in Chats |-> 0]
    /\ nresp = [c \in Chats |-> IF c = 1 THEN 1 ELSE 0]

(* htmlResp := convertMarkdownToHTML(response); err = c.Send(htmlResp,    *)
(* telebot.ModeHTML); outcome gets the text passed to c.Send and its      *)
(* result                                                                  *)
ConvertAndSend(w) ==
    /\ ~crashed
    /\ pc[w] = "html"
    /\ \E ok \in BOOLEAN :
          /\ outcome' = [outcome EXCEPT ![w[1]] =
                            << [chunk |-> convertMarkdownToHTML(wres[w]), ok |-> ok] >>]
          /\ pc' = [pc EXCEPT ![w] = IF ok THEN "recv" ELSE "split"]
    /\ UNCHANGED << userStates, userQueues, disk, crashed, wmsg, wres, wstate,
                    presented, nresp >>
    /\ WorkerFrame

NextHtml == \E w \in Workers : ConvertAndSend(w)

SpecHtml == InitHtml /\ [][NextHtml]_vars

Occurrences(text, d) == Cardinality({i \in 1..Len(text) : StartsAt(text, i, d)})

(* C14: the text passed to the transport in the HTML tier has one "&lt;"  *)
(* for every '<' of the reply and no other, and every '<' in it is the    *)
(* first character of a tag that a substitution put there.                *)
C14_EscapedBeforeSubstitution ==
    \A w \in Workers :
        (pc[w] \in {"recv", "split"} /\ outcome[w[1]] # << >>) =>
            LET html == outcome[w[1]][1].chunk
            IN  /\ Occurrences(html, EntityLt) = Occurrences(wres[w], << "<" >>)
                /\ \A i \in 1..Len(html) :
                      html[i] = "<" =>
                          \E tag \in {TagB, TagBEnd, TagI, TagIEnd} : StartsAt(html, i, tag)
                /\ Occurrences(html, TagB) = Occurrences(html, TagBEnd)
                /\ Occurrences(html, TagI) = Occurrences(html, TagIEnd)

C14_Witness ==
    \E w \in Workers :
        /\ pc[w] = "recv"
        /\ wres[w] = << "*", "<", "*", "<" >>
        /\ outcome[w[1]][1].chunk =
               TagI \o EntityLt \o TagIEnd \o EntityLt

----------------------------------------------------------------------------
(* Handlers and the worker on one conversation, under Spec *)

(* a worker of the conversation is inside sendChat: it has read the state *)
(* and has not yet saved it or returned                                   *)
Completing(c) == \E w \in WorkersOf(c) : pc[w] \in InSendChat

(* a text was handled as the answer to /model or /system *)
AnsweredPending(c) ==
    /\ Len(fate'[c]) = Len(fate[c]) + 1
    /\ fate'[c][Len(fate'[c])] \in {"model", "system"}

(* C15: while a worker of a conversation is inside sendChat, no command   *)
(* handler and no pending-input answer of that conversation runs, so none *)
(* reads, replaces or saves its state.                                    *)
C15_CommandsExcludedDuringCompletion ==
    [][\A c \in Chats :
          Completing(c) => (ncmds'[c] = ncmds[c] /\ ~AnsweredPending(c))
      ]_vars

----------------------------------------------------------------------------
(* The request of a later text, under SpecSeq: texts, /start, /status and *)
(* sweeps only, so that no history is cleared and none is long enough to  *)
(* be trimmed                                                              *)

SeqTexts == 2
SeqCmds == 1
SeqResp == 2

InitSeq == InitWith(Limits([c \in Chats |-> IF c = 1 THEN SeqTexts ELSE 0],
                           [c \in Chats |-> IF c = 1 THEN SeqCmds ELSE 0],
                           [c \in Chats |-> IF c = 1 THEN SeqResp ELSE 0]),
                    [c \in Chats |-> NoFile])

NextSeq ==
    \/ \E c \in Chats : CmdStart(c)
    \/ \E c \in Chats : CmdStatus(c)
    \/ \E c \in Chats : OnText(c)
    \/ Sweep
    \/ \E w \in Workers : ProcessStart(w)
    \/ \E w \in Workers : Receive(w)
    \/ \E w \in Workers : SendChatBegin(w)
    \/ \E w \in Workers : CompletionFails(w)
    \/ \E w \in Workers : CompletionNoChoices(w)
    \/ \E w \in Workers : CompletionSucceeds(w)
    \/ \E w \in Workers : AppendReply(w)
    \/ \E w \in Workers : TrimAndSave(w)
    \/ \E w \in Workers : ReportError(w)
    \/ \E w \in Workers : ReportNoResponse(w)
    \/ \E w \in Workers : SendPlain(w)
    \/ \E w \in Workers : SendHTML(w)
    \/ \E w \in Workers : SendSplit(w)

SpecSeq == InitSeq /\ [][NextSeq]_vars

(* the texts of the conversation whose completion gave a reply that was   *)
(* sent to the user                                                        *)
Replied(c) == {i \in 1..Len(outcome[c]) : outcome[c][i] = "reply"}

(* C16: the messages of a request that is in flight are the system        *)
(* prompt, then turns among which are the user turn and the assistant     *)
(* turn of every earlier text of the conversation that got a reply, then  *)
(* the new user turn.                                                      *)
C16_RequestCarriesEarlierTurns ==
    \A w \in Workers :
        pc[w] = "http" =>
            LET c == w[1]
                msgs == BuildMessages(StateOf(w), wmsg[w])
            IN  /\ msgs[1] = ChatMessage("system", DefaultSystemPrompt)
                /\ msgs[Len(msgs)] = ChatMessage("user", wmsg[w])
                /\ \A i \in Replied(c) :
                      \E k \in 2..(Len(msgs) - 2) :
                          /\ msgs[k] = ChatMessage("user", presented[c][i])
                          /\ msgs[k + 1] = ChatMessage("assistant", "r")

----------------------------------------------------------------------------
(* The sweep of the cache, under Spec *)

(* what the text handler takes the next text of a conversation for *)
Interpretation(c) ==
    IF userStates[c] # Nil /\ userStates[c].PendingInput \in {"model", "system"}
    THEN userStates[c].PendingInput
    ELSE "chat"

(* C17: a sweep leaves every durable record as it is, and for every       *)
(* conversation that has no completion in flight it changes neither the   *)
(* state the next access finds (model, system prompt, history, presets,   *)
(* pending input) nor what the next text will be taken for.               *)
C17_SweepIsTransparent ==
    [][Sweep =>
          /\ disk' = disk
          /\ \A c \in Chats :
                (~Completing(c) /\ ~loadPanics(disk[c])) =>
                    /\ EffectiveState(c)' = EffectiveState(c)
                    /\ Interpretation(c)' = Interpretation(c)
      ]_vars

----------------------------------------------------------------------------
(* The life of a worker, under Spec *)

(* every text the conversation accepted has been answered and its channel *)
(* is empty                                                                *)
Drained(c) ==
    /\ userQueues[c] # Nil
    /\ Buf(c) = << >>
    /\ Len(outcome[c]) = Len(accepted[c])

(* C18: a conversation whose channel has been drained has no worker left, *)
(* so the next text that is put into its channel starts a new worker.     *)
C18_DrainedWorkerExits ==
    [][\A c \in Chats :
          (Drained(c) /\ Len(accepted'[c]) = Len(accepted[c]) + 1)
              => nworkers'[c] = nworkers[c] + 1
      ]_vars

----------------------------------------------------------------------------
(* Progress of the worker, under SpecLive: every request gets a response  *)
(* (as many responses may come as texts are sent), every call of the      *)
(* worker returns and the worker goroutine is scheduled                   *)

LiveTexts == 2
LiveCmds == 1

InitLive == InitWith(Limits([c \in Chats |-> IF c = 1 THEN LiveTexts ELSE 0],
                            [c \in Chats |-> IF c = 1 THEN LiveCmds ELSE 0],
                            [c \in Chats |-> IF c = 1 THEN LiveTexts ELSE 0]),
                     [c \in Chats |-> NoFile])

(* a step of a worker goroutine *)
WorkerStep ==
    \E w \in Workers :
        \/ ProcessStart(w)
        \/ Receive(w)
        \/ SendChatBegin(w)
        \/ CompletionFails(w)
        \/ CompletionNoChoices(w)
        \/ CompletionSucceeds(w)
        \/ AppendReply(w)
        \/ TrimAndSave(w)
        \/ ReportError(w)
        \/ ReportNoResponse(w)
        \/ SendPlain(w)
        \/ SendHTML(w)
        \/ SendSplit(w)

SpecLive == InitLive /\ [][Next]_vars /\ WF_vars(WorkerStep)

(* the workers of a conversation that are in their loop *)
Draining(c) == {w \in WorkersOf(c) : pc[w] \notin {"none", "blocked", "done"}}

----------------------------------------------------------------------------
(* What a completion that returns without error has done, under SpecTrim: *)
(* one conversation whose stored history is at the limit                  *)

TrimTexts == 2
TrimCmds == 1
TrimResp == 2

InitTrim == InitWith(Limits([c \in Chats |-> IF c = 1 THEN TrimTexts ELSE 0],
                            [c \in Chats |-> IF c = 1 THEN TrimCmds ELSE 0],
                            [c \in Chats |-> IF c = 1 THEN TrimResp ELSE 0]),
                     [c \in Chats |-> IF c = 1 THEN OldRecord ELSE NoFile])

SpecTrim == InitTrim /\ [][Next]_vars

(* sendChat of worker w returns nil as its error in this step *)
ReturnsNoChoices(w) == pc[w] = "http" /\ pc'[w] = "noresp"
ReturnsReply(w) == pc[w] = "trim" /\ pc'[w] \in {"plain", "noresp"}

EndsWithTurn(h, message, reply) ==
    /\ Len(h) >= 2
    /\ h[Len(h) - 1] = ChatMessage("user", message)
    /\ h[Len(h)] = ChatMessage("assistant", reply)

(* C20 as stated: when sendChat returns without error, the record of the  *)
(* conversation holds a history of at most 40 turns that ends with the    *)
(* user turn of the text and the assistant turn of the returned reply,    *)
(* also when the reply is empty because the answer had no content.        *)
C20_SuccessAppendsAndPersists ==
    [][\A w \in Workers :
          (ReturnsNoChoices(w) \/ ReturnsReply(w)) =>
              /\ disk'[w[1]].kind = "json"
              /\ Len(loadUserState(disk'[w[1]]).History) <= HistoryLimit
              /\ EndsWithTurn(loadUserState(disk'[w[1]]).History, wmsg[w], wres'[w])
      ]_vars

(* C20 amended: a completion whose answer has a choice appends the user   *)
(* turn, then the assistant turn (whose content may be empty) to the      *)
(* history of the state it works on, nobody else changes that history in  *)
(* between, and on return the record is that state with the history cut   *)
(* to its last 40 turns; a completion whose answer has no choice returns  *)
(* the empty string and changes neither cache nor record.                 *)
C20_ChoiceAppendsAndPersists ==
    [][\A w \in Workers :
          /\ (pc[w] = "http" /\ pc'[w] = "append2") =>
                 StateOf(w)'.History = Append(StateOf(w).History, ChatMessage("user", wmsg[w]))
          /\ (pc[w] = "append2" /\ pc'[w] = "trim") =>
                 /\ StateOf(w)'.History =
                        Append(StateOf(w).History, ChatMessage("assistant", wres[w]))
                 /\ EndsWithTurn(StateOf(w)'.History, wmsg[w], wres[w])
          /\ (pc[w] \in {"append2", "trim"} /\ pc'[w] = pc[w]) =>
                 StateOf(w)'.History = StateOf(w).History
          /\ ReturnsReply(w) =>
                 /\ disk'[w[1]] =
                        saveUserState([StateOf(w) EXCEPT !.History = TrimHistory(@)])
                 /\ Len(loadUserState(disk'[w[1]]).History) <= HistoryLimit
                 /\ EndsWithTurn(loadUserState(disk'[w[1]]).History, wmsg[w], wres[w])
          /\ ReturnsNoChoices(w) =>
                 /\ wres'[w] = ""
                 /\ disk' = disk
                 /\ userStates' = userStates
      ]_vars

C20_Witness ==
    \E w \in Workers :
        /\ pc[w] = "noresp"
        /\ wres[w] = ""
        /\ disk[w[1]].kind = "json"
        /\ Len(loadUserState(disk[w[1]]).History) = HistoryLimit
        /\ EndsWithTurn(loadUserState(disk[w[1]]).History, wmsg[w], "")
        /\ SubSeq(loadUserState(disk[w[1]]).History, 1, HistoryLimit - 2)
               = SubSeq(OldHistory, 3, HistoryLimit)

----------------------------------------------------------------------------
(* The guard of the two maps, under SpecGuard: the sweep takes mu, ranges *)
(* over userStates deleting entries, and releases mu, in two steps        *)

(* mu.Lock() of the ticker goroutine; for chatID := range userStates *)
SweepLock ==
    /\ ~crashed
    /\ mu = "free"
    /\ mu' = "sweep"
    /\ UNCHANGED << userStates, userQueues, disk, crashed, pc, wmsg, wres, wstate,
                    nworkers, fate, waits, accepted, presented, outcome, lim,
                    ncmds, nresp >>

(* the deletes of the loop are done; mu.Unlock() *)
SweepUnlock ==
    /\ ~crashed
    /\ mu = "sweep"
    /\ mu' = "free"
    /\ userStates' = [c \in Chats |-> IF c # MeID THEN Nil ELSE userStates[c]]
    /\ wstate' = Detached({c \in Chats : c # MeID})
    /\ UNCHANGED << userQueues, disk, crashed, pc, wmsg, wres,
                    nworkers, fate, waits, accepted, presented, outcome, lim,
                    ncmds, nresp >>

NextGuard ==
    \/ \E c \in Chats : CmdStart(c)
    \/ \E c \in Chats : CmdStatus(c)
    \/ \E c \in Chats : CmdModel(c)
    \/ \E c \in Chats : CmdSystem(c)
    \/ \E c \in Chats : CmdReset(c)
    \/ \E c \in Chats : CmdClear(c)
    \/ \E c \in Chats : CmdNew(c)
    \/ \E c \in Chats : CmdSet(c)
    \/ \E c \in Chats : CmdPreset(c)
    \/ \E c \in Chats : OnText(c)
    \/ SweepLock
    \/ SweepUnlock
    \/ \E w \in Workers : ProcessStart(w)
    \/ \E w \in Workers : Receive(w)
    \/ \E w \in Workers : SendChatBegin(w)
    \/ \E w \in Workers : CompletionFails(w)
    \/ \E w \in Workers : CompletionNoChoices(w)
    \/ \E w \in Workers : CompletionSucceeds(w)
    \/ \E w \in Workers : AppendReply(w)
    \/ \E w \in Workers : TrimAndSave(w)
    \/ \E w \in Workers : ReportError(w)
    \/ \E w \in Workers : ReportNoResponse(w)
    \/ \E w \in Workers : SendPlain(w)
    \/ \E w \in Workers : SendHTML(w)
    \/ \E w \in Workers : SendSplit(w)

SpecGuard == Init /\ [][NextGuard]_vars

(* a step in which a handler or a worker reads or writes userStates or    *)
(* userQueues: a command handler, the text handler, the worker's read of  *)
(* its channel from userQueues, sendChat's look-up in userStates          *)
AccessesMaps ==
    \/ ncmds' # ncmds
    \/ fate' # fate
    \/ \E w \in Workers :
          \/ pc[w] = "start" /\ pc'[w] # "start"
          \/ pc[w] = "notify" /\ pc'[w] # "notify"

(* C21: while a goroutine holds mu to change one of the maps, no other    *)
(* goroutine reads or writes userStates or userQueues.                    *)
C21_MapsAccessedUnderGuard ==
    [][(mu # "free" /\ mu' = mu) => ~AccessesMaps]_vars

----------------------------------------------------------------------------
(* The tiers of the delivery, under Spec *)

(* the worker's c.Send delivered something to the user in this step *)
Delivers(w) == outcome'[w[1]] # outcome[w[1]]

(* C22: a reply is first sent as plain text; the HTML form is sent only   *)
(* after the plain send failed and splitAndSend is called only after the  *)
(* HTML send failed too; a send that delivers the reply is the last one   *)
(* for that reply: the worker goes back to its receive.                   *)
C22_TiersInOrder ==
    [][\A w \in Workers :
          /\ (pc'[w] = "plain" /\ pc[w] # "plain") => (pc[w] = "trim" /\ wres[w] # "")
          /\ (pc'[w] = "html" /\ pc[w] # "html") => (pc[w] = "plain" /\ ~Delivers(w))
          /\ (pc'[w] = "split" /\ pc[w] # "split") => (pc[w] = "html" /\ ~Delivers(w))
          /\ (pc[w] \in {"plain", "html", "split"} /\ pc'[w] # pc[w]) =>
                 (Delivers(w) <=> pc'[w] = "recv")
          /\ (pc[w] \in {"plain", "html", "split"} /\ Delivers(w)) =>
                 outcome'[w[1]] = Append(outcome[w[1]], "reply")
      ]_vars

C22_Witness ==
    \E w \in Workers :
        /\ pc[w] = "split"
        /\ Len(outcome[w[1]]) = 1
        /\ outcome[w[1]][1] = "reply"
        /\ Len(presented[w[1]]) = 2

----------------------------------------------------------------------------
(* The failure of a chunk, under SpecSplit *)

(* a c.Send of splitAndSend returned an error; splitAndSend returns it *)
SplitFailed(c) == \E i \in 1..Len(outcome[c]) : ~outcome[c][i].ok

(* the worker after `splitAndSend(c, response)` of line 313: the call is  *)
(* a statement, its result is assigned to nothing, and the loop body ends *)
GoesOnAsDelivered(w) == pc[w] = "recv"

(* C23: splitAndSend passes its chunks to c.Send in the order of the      *)
(* text; after a c.Send that failed no further chunk is sent, and the     *)
(* worker that called the delivery learns of the error: it does not go on *)
(* as it does after a delivered reply.                                    *)
C23_SplitFailureSurfaces ==
    \A w \in Workers :
        LET c == w[1]
            chunks == splitAndSend(wres[w])
        IN  (pc[w] = "recv" /\ outcome[c] # << >>) =>
               /\ Len(outcome[c]) <= Len(chunks)
               /\ \A i \in 1..Len(outcome[c]) :
                     /\ outcome[c][i].chunk = chunks[i]
                     /\ ~outcome[c][i].ok => i = Len(outcome[c])
               /\ SplitFailed(c) => ~GoesOnAsDelivered(w)

----------------------------------------------------------------------------
(* Pending input, under Spec *)

(* the text handler has handled one more text of the conversation *)
TextHandled(c) == Len(fate'[c]) = Len(fate[c]) + 1

(* the text was taken as the value of the field: the field is set, the    *)
(* pending input is reset, the state is saved, and the text is neither    *)
(* put into the channel nor added to the history                          *)
TakenAsValue(c, kind) ==
    LET msg == Text(Len(fate[c]) + 1)
    IN  /\ fate'[c] = Append(fate[c], kind)
        /\ userStates'[c] # Nil
        /\ userStates'[c].PendingInput = ""
        /\ kind = "model" => userStates'[c].Model = msg
        /\ kind = "system" => userStates'[c].SystemPrompt = msg
        /\ userStates'[c].History = EffectiveState(c).History
        /\ disk'[c] = saveUserState(userStates'[c])
        /\ userQueues'[c] = userQueues[c]
        /\ accepted'[c] = accepted[c]

(* the text went the way of a chat turn: to the channel, or to the notice *)
(* that the channel is full                                               *)
TakenAsChatTurn(c) ==
    /\ fate'[c][Len(fate'[c])] \in {"queued", "rejected"}
    /\ userStates'[c] = userStates[c]
    /\ disk'[c] = disk[c]

(* C24: /model (/system) leaves the conversation's state with pending     *)
(* input "model" ("system"); a text that arrives while the state's        *)
(* pending input is "model" ("system") is taken as the model (system      *)
(* prompt) value; a text that arrives while it is "" is a chat turn.      *)
C24_PendingInputDecidesText ==
    [][\A c \in Chats :
          /\ (CmdModel(c) /\ ~crashed') => EffectiveState(c)'.PendingInput = "model"
          /\ (CmdSystem(c) /\ ~crashed') => EffectiveState(c)'.PendingInput = "system"
          /\ (TextHandled(c) /\ ~loadPanics(disk[c])) =>
                IF EffectiveState(c).PendingInput \in {"model", "system"}
                THEN TakenAsValue(c, EffectiveState(c).PendingInput)
                ELSE TakenAsChatTurn(c)
      ]_vars

----------------------------------------------------------------------------
(* Saves that fail, under SpecFail: the texts and commands of one         *)
(* conversation, where the os.WriteFile of a save may return an error     *)

FailTexts == 2
FailCmds == 2
FailResp == 1

(* what an os.WriteFile that returns an error leaves: the file as it was  *)
(* when it could not be opened, a truncated file when the write failed    *)
WriteFails(file) == {file, GarbageFile}

(* the text handler's branch for a pending input whose saveUserState      *)
(* fails; the error is dropped and "Model set to: ..." is sent            *)
OnTextWriteFails(c) ==
    /\ ~crashed
    /\ Len(fate[c]) < lim.texts[c]
    /\ userStates[c] # Nil
    /\ userStates[c].PendingInput \in {"model", "system"}
    /\ LET msg == Text(Len(fate[c]) + 1)
           kind == userStates[c].PendingInput
           state == IF kind = "model"
                    THEN [userStates[c] EXCEPT !.Model = msg, !.PendingInput = ""]
                    ELSE [userStates[c] EXCEPT !.SystemPrompt = msg, !.PendingInput = ""]
       IN  /\ userStates' = [userStates EXCEPT ![c] = state]
           /\ \E f \in WriteFails(disk[c]) : disk' = [disk EXCEPT ![c] = f]
           /\ fate' = [fate EXCEPT ![c] = Append(@, kind)]
    /\ UNCHANGED << userQueues, mu, crashed, pc, wmsg, wres, wstate, nworkers,
                    waits, accepted, presented, outcome, lim, ncmds, nresp >>

(* sendChat's trim and save where the saveUserState of line 274 fails *)
TrimAndSaveWriteFails(w) ==
    /\ ~crashed
    /\ pc[w] = "trim"
    /\ LET s == [StateOf(w) EXCEPT !.History = TrimHistory(@)]
       IN  /\ \E f \in WriteFails(disk[w[1]]) : disk' = [disk EXCEPT ![w[1]] = f]
           /\ userStates' = IF wstate[w].ref = "cache"
                            THEN [userStates EXCEPT ![w[1]] = s]
                            ELSE userStates
    /\ wstate' = [wstate EXCEPT ![w] = NoRef]
    /\ pc' = [pc EXCEPT ![w] = IF wres[w] = "" THEN "noresp" ELSE "plain"]
    /\ UNCHANGED << userQueues, crashed, wmsg, wres, presented, outcome, nresp >>
    /\ WorkerFrame

InitFail == InitWith(Limits([c \in Chats |-> IF c = 1 THEN FailTexts ELSE 0],
                            [c \in Chats |-> IF c = 1 THEN FailCmds ELSE 0],
                            [c \in Chats |-> IF c = 1 THEN FailResp ELSE 0]),
                     [c \in Chats |-> NoFile])

NextFail ==
    \/ \E c \in Chats : CmdStatus(c)
    \/ \E c \in Chats : CmdModel(c)
    \/ \E c \in Chats : CmdSystem(c)
    \/ \E c \in Chats : CmdReset(c)
    \/ \E c \in Chats : CmdClear(c)
    \/ \E c \in Chats : OnText(c)
    \/ \E c \in Chats : OnTextWriteFails(c)
    \/ \E w \in Workers : ProcessStart(w)
    \/ \E w \in Workers : Receive(w)
    \/ \E w \in Workers : SendChatBegin(w)
    \/ \E w \in Workers : CompletionFails(w)
    \/ \E w \in Workers : CompletionNoChoices(w)
    \/ \E w \in Workers : CompletionSucceeds(w)
    \/ \E w \in Workers : AppendReply(w)
    \/ \E w \in Workers : TrimAndSave(w)
    \/ \E w \in Workers : TrimAndSaveWriteFails(w)
    \/ \E w \in Workers : ReportError(w)
    \/ \E w \in Workers : ReportNoResponse(w)
    \/ \E w \in Workers : SendPlain(w)
    \/ \E w \in Workers : SendHTML(w)
    \/ \E w \in Workers : SendSplit(w)

SpecFail == InitFail /\ [][NextFail]_vars

(* the command handler worked on the struct that was in the cache: every  *)
(* field it does not assign is as it was there, and what it saves is that *)
(* struct                                                                  *)
CommandKeepsMemory(c) ==
    /\ CmdStatus(c) => userStates'[c] = userStates[c]
    /\ CmdModel(c) => userStates'[c] = [userStates[c] EXCEPT !.PendingInput = "model"]
    /\ CmdSystem(c) => userStates'[c] = [userStates[c] EXCEPT !.PendingInput = "system"]
    /\ CmdReset(c) =>
          userStates'[c] = [userStates[c] EXCEPT !.SystemPrompt = DefaultSystemPrompt]
    /\ CmdClear(c) => userStates'[c] = [userStates[c] EXCEPT !.History = << >>]
    /\ disk'[c] # disk[c] => disk'[c] = saveUserState(userStates'[c])

(* C25: a save that fails changes nothing the user is told, and the       *)
(* cached state stays the conversation's state: a later command and a     *)
(* later sendChat work on the cached struct with its unsaved change, and  *)
(* the next save that succeeds writes it.                                 *)
C25_MemoryStaysAuthoritative ==
    [][\A c \in Chats :
          /\ OnTextWriteFails(c) => (outcome' = outcome /\ waits' = waits)
          /\ (userStates[c] # Nil /\ ~Completing(c) /\ ncmds'[c] # ncmds[c] /\ ~crashed') =>
                CommandKeepsMemory(c)
          /\ \A w \in WorkersOf(c) :
                (userStates[c] # Nil /\ pc[w] = "notify" /\ pc'[w] = "http") =>
                    (userStates'[c] = userStates[c] /\ wstate'[w] = CacheRef)
      ]_vars

----------------------------------------------------------------------------
(* /clear and /new on a conversation with a stored history, under         *)
(* SpecClear: these are the only commands, so that a conversation with    *)
(* ncmds >= 1 has had its history cleared                                 *)

NextClear ==
    \/ \E c \in Chats : CmdClear(c)
    \/ \E c \in Chats : CmdNew(c)
    \/ \E c \in Chats : OnText(c)
    \/ \E w \in Workers : ProcessStart(w)
    \/ \E w \in Workers : Receive(w)
    \/ \E w \in Workers : SendChatBegin(w)
    \/ \E w \in Workers : CompletionFails(w)
    \/ \E w \in Workers : CompletionNoChoices(w)
    \/ \E w \in Workers : CompletionSucceeds(w)
    \/ \E w \in Workers : AppendReply(w)
    \/ \E w \in Workers : TrimAndSave(w)
    \/ \E w \in Workers : ReportError(w)
    \/ \E w \in Workers : ReportNoResponse(w)
    \/ \E w \in Workers : SendPlain(w)
    \/ \E w \in Workers : SendHTML(w)
    \/ \E w \in Workers : SendSplit(w)

SpecClear == InitTrim /\ [][NextClear]_vars

(* one of the turns of the stored history is among the messages *)
HasOldTurn(msgs) == \E i \in 1..Len(msgs) : msgs[i].Content = "old"

(* the history a load of the conversation's record gives *)
RecordHistory(c) == loadUserState(disk[c]).History

(* C26: once /clear or /new has returned, the durable record holds no     *)
(* turn of the history from before the command and no request that        *)
(* sendChat builds from then on carries one, whether or not a completion  *)
(* of the conversation was in flight when the command ran.                *)
C26_ClearedTurnsNeverReturn ==
    [][\A c \in Chats :
          (ncmds'[c] >= 1 /\ ~crashed') =>
              /\ ~HasOldTurn(RecordHistory(c)')
              /\ \A w \in WorkersOf(c) :
                    (pc[w] = "notify" /\ pc'[w] = "http") =>
                        ~HasOldTurn(BuildMessages(StateOf(w)', wmsg[w]))
      ]_vars

----------------------------------------------------------------------------
(* The path of a record. Strings are sequences of code points. The module *)
(* has two programs with the same getStateFilePath and different          *)
(* int64ToString: the one at the root of the repository, modelled above,  *)
(* and cmd/main.go, which the Dockerfile builds (go build ./cmd).         *)

(* chat ids: small ones, ids of users and the id of a group; all lie in   *)
(* the range of int32, where rune(i) keeps the value                      *)
IdPool == {65, 66, 67, 68, 123456789, 987654321, -1001}

Builds == {"root", "cmd"}

Digit(d) == 48 + d

RECURSIVE Decimal(_)
(* the decimal digits of n >= 0 *)
Decimal(n) == IF n < 10 THEN << Digit(n) >> ELSE Append(Decimal(n \div 10), Digit(n % 10))

(* fmt.Sprintf("%d", i) *)
int64ToString(i) == IF i < 0 THEN << 45 >> \o Decimal(0 - i) ELSE Decimal(i)

ReplacementChar == 65533
MaxRune == 1114111

(* string(rune(i)): the UTF-8 form of the code point, and of U+FFFD for a *)
(* value that is no code point (negative, a surrogate, above U+10FFFF)    *)
int64ToStringCmd(i) ==
    IF i < 0 \/ i > MaxRune \/ (i >= 55296 /\ i <= 57343)
    THEN << ReplacementChar >>
    ELSE << i >>

(* "./data/store/user_" + int64ToString(chatID) + ".json" *)
getStateFilePath(build, chatID) ==
    << 46, 47, 100, 97, 116, 97, 47, 115, 116, 111, 114, 101, 47, 117, 115, 101, 114, 95 >>
    \o (IF build = "cmd" THEN int64ToStringCmd(chatID) ELSE int64ToString(chatID))
    \o << 46, 106, 115, 111, 110 >>

Paths == {getStateFilePath(b, i) : b \in Builds, i \in IdPool}

(* the states the handlers save *)
PathStates == {[SeedPreset(DefaultState) EXCEPT !.Model = m] : m \in {DefaultModel, "m1", "m2"}}

(* the store holds files by path; nothing else of the program moves *)
InitPath ==
    InitWith(Limits([c \in Chats |-> 0], [c \in Chats |-> 0], [c \in Chats |-> 0]),
             [p \in Paths |-> NoFile])

(* saveUserState(chatID, state): os.WriteFile(getStateFilePath(chatID), ...) *)
StoreState(build, chatID) ==
    /\ \E s \in PathStates :
          disk' = [disk EXCEPT ![getStateFilePath(build, chatID)] = saveUserState(s)]
    /\ UNCHANGED << userStates, userQueues, mu, crashed, pc, wmsg, wres, wstate,
                    nworkers, fate, waits, accepted, presented, outcome, lim,
                    ncmds, nresp >>

(* the program that is shipped: cmd/main.go *)
NextPath == \E i \in IdPool : StoreState("cmd", i)

SpecPath == InitPath /\ [][NextPath]_vars

(* loadUserState(chatID) *)
LoadOf(build, chatID) == loadUserState(disk[getStateFilePath(build, chatID)])

(* C27: in either program two different conversation ids have different  *)
(* paths, and a save for one conversation leaves what loadUserState       *)
(* returns for every other conversation as it was.                        *)
C27_RecordsAreDisjoint ==
    [][\A b \in Builds : \A i \in IdPool : \A j \in IdPool \ {i} :
          /\ getStateFilePath(b, i) # getStateFilePath(b, j)
          /\ StoreState(b, i) => LoadOf(b, j)' = LoadOf(b, j)
      ]_vars

====
